---- MODULE Spec2Model ----
(***************************************************************************)
(* The library API of graphql-library: the Mutation resolvers addBook,     *)
(* borrowBook and returnBook over the mongoose collections Book and        *)
(* Borrowing, the Mutation resolver registerMember over the collection     *)
(* Member, and the field resolver Borrowing.daysOverdue.  Every resolver   *)
(* is an async function; the server runs any number of them at once and    *)
(* their bodies interleave at each await.  One action of the model is one  *)
(* database operation together with the synchronous code that follows it   *)
(* up to the next await.                                                    *)
(***************************************************************************)
EXTENDS Integers, Sequences, FiniteSets, TLC

\* ------------------------------------------------------------- bounds
MaxBorrowings == 2   \* Borrowing documents the runs create
MaxCopies     == 2   \* largest input.copies
MaxDays       == 21  \* timestamps handed to daysOverdue span this many days
MaxMs         == 1   \* single milliseconds the clock advances
MaxWraps      == 1   \* times the clock advances by 10^6 milliseconds

\* resolver invocations that are in flight together
Procs   == {"p1", "p2"}
\* the members a bearer token resolves to; Null is context.userId = null
\* and an unset returnDate
Members == {"M1", "M2"}
Null    == "null"
UserIds == Members \cup {Null}
\* input.isbn; isbn is a unique index, so there is one Book per isbn
Isbns   == {"111"}
\* identifiers handed to the resolvers: 0 is a string that is no ObjectId,
\* n >= 1 is the ObjectId of the n-th document created (it may not exist yet)
BookIds      == 0..Cardinality(Isbns)
BorrowingIds == 0..MaxBorrowings
CopiesInputs == (-1)..MaxCopies

VARIABLES
  books,       \* the Book collection: sequence of documents, _id = index
  borrowings,  \* the Borrowing collection: sequence of documents, _id = index
  req,         \* per invocation: position, arguments, locals, outcome
  trip,        \* history: the collections as a client's borrowBook found them
  overdue,     \* one evaluation of the field resolver Borrowing.daysOverdue
  members,     \* the Member collection: sequence of documents
  clock,       \* Date.now(), in milliseconds since a multiple of 10^6
  reg          \* per registerMember invocation: position, locals, outcome

ledger == <<books, borrowings, req>>
registry == <<members, clock, reg>>
\* what the resolvers of Book and Borrowing leave alone
side == <<trip, overdue, registry>>
vars == <<ledger, side>>

\* ------------------------------------------------------------ helpers
\* A resolver invocation that has not been called.  bookAvail is the local
\* document book.availableCopies, created the local newBorrowing._id.
\* writes is history: the collections this invocation has written.
IdleReq ==
  [op |-> "none", pc |-> "idle", userId |-> Null, arg |-> 0,
   isbn |-> "", copies |-> 0,
   bookAvail |-> 0, created |-> 0, outcome |-> "none", writes |-> {}]

\* the resolver returns (outcome "OK") or throws an AppError (its code);
\* its local documents are gone, its result (created) is what it returned
Finish(r, out) ==
  [r EXCEPT !.pc = "done", !.outcome = out, !.bookAvail = 0]

\* mongoose.Types.ObjectId.isValid(id)
IsValidId(id) == id # 0

BookExists(id) == id \in DOMAIN books
BorrowingExists(id) == id \in DOMAIN borrowings

\* Borrowing.findOne({member, book, returned: false})
ActiveBorrowings(m, b) ==
  {i \in DOMAIN borrowings :
     /\ borrowings[i].member = m
     /\ borrowings[i].book = b
     /\ ~borrowings[i].returned}

\* Book.findOne({isbn})
BooksWithIsbn(isbn) == {i \in DOMAIN books : books[i].isbn = isbn}

\* Borrowing documents of book b that are not returned
ActiveOfBook(b) ==
  {i \in DOMAIN borrowings : borrowings[i].book = b /\ ~borrowings[i].returned}

Done(p, op) == req[p].pc = "done" /\ req[p].op = op
InFlight(p) == req[p].pc \notin {"idle", "done"}
Quiescent == \A p \in Procs : ~InFlight(p)

\* borrowBook invocations that may still create a Borrowing document
PendingCreates ==
  {p \in Procs : req[p].pc \in {"b_findBook", "b_findExisting", "b_create"}}

\* no borrowBook of a borrow-then-return client is under way
NoTrip == [phase |-> "none", book |-> 0, books |-> << >>, borrowings |-> << >>]

\* daysOverdue has not been asked for
NoOverdue ==
  [borrowDate |-> 0, now |-> 0, returned |-> FALSE, resolved |-> FALSE,
   days |-> 0]

\* a registerMember invocation that has not been called.  number is the
\* local membershipNumber, at is history: the Date.now() it was cut from
IdleReg ==
  [pc |-> "idle", email |-> "", number |-> 0, at |-> 0, outcome |-> "none"]

\* --------------------------------------------------------------- Init
\* empty collections, no request
InitLedger ==
  /\ books = << >>
  /\ borrowings = << >>
  /\ req = [p \in Procs |-> IdleReq]
  /\ trip = NoTrip

InitRegistry ==
  /\ members = << >>
  /\ clock = 0
  /\ reg = [p \in Procs |-> IdleReg]

Init ==
  /\ InitLedger
  /\ InitRegistry
  /\ overdue = NoOverdue

\* ------------------------------------------------------------ addBook
\* lines 317-332: the checks before the first await
AddBookStart(u, isbn, copies) ==
  LET r == [IdleReq EXCEPT !.op = "addBook", !.userId = u, !.isbn = isbn,
                           !.copies = copies]
  IN IF u = Null THEN Finish(r, "UNAUTHENTICATED")
     ELSE IF copies = 0 THEN Finish(r, "INVALID_INPUT")
     ELSE IF copies < 1 THEN Finish(r, "INVALID_COPIES")
     ELSE [r EXCEPT !.pc = "a_find"]

CallAddBook(p) ==
  /\ req[p].pc = "idle"
  /\ \E u \in UserIds, isbn \in Isbns, copies \in CopiesInputs :
       req' = [req EXCEPT ![p] = AddBookStart(u, isbn, copies)]
  /\ UNCHANGED <<books, borrowings, side>>

\* lines 335-338: Book.findOne({isbn}) answers
AddBookAfterFind(r) ==
  IF BooksWithIsbn(r.isbn) # {} THEN Finish(r, "ISBN_EXISTS")
  ELSE [r EXCEPT !.pc = "a_create"]

AddBookFind(p) ==
  /\ req[p].pc = "a_find"
  /\ req' = [req EXCEPT ![p] = AddBookAfterFind(req[p])]
  /\ UNCHANGED <<books, borrowings, side>>

\* the paths of bookSchema (models/book.js lines 3-9)
BookSchemaPaths == {"title", "author", "category", "isbn", "availableCopies"}

\* what a strict mongoose schema stores of a value handed to Book.create:
\* the value under a path of the schema, nothing under any other key
Cast(path, value) == IF path \in BookSchemaPaths THEN {value} ELSE {}

\* lines 341-345 with the schema of models/book.js: availableCopies is
\* stored; totalCopies holds what is stored of totalCopies: copies.
\* createdWith is history: the count the book was created with
NewBook(r) ==
  [isbn |-> r.isbn, availableCopies |-> r.copies,
   totalCopies |-> Cast("totalCopies", r.copies), createdWith |-> r.copies]

\* Book.create inserts; the unique index on isbn (models/book.js line 7)
\* rejects a second document with a duplicate-key error, which is no
\* AppError and so becomes ADD_BOOK_ERROR (lines 348-350)
AddBookCreate(p) ==
  /\ req[p].pc = "a_create"
  /\ IF BooksWithIsbn(req[p].isbn) # {}
       THEN /\ req' = [req EXCEPT ![p] = Finish(req[p], "ADD_BOOK_ERROR")]
            /\ UNCHANGED <<books, side>>
       ELSE /\ books' = Append(books, NewBook(req[p]))
            /\ req' = [req EXCEPT ![p] =
                 Finish([req[p] EXCEPT !.writes = {"Book"}], "OK")]
  /\ UNCHANGED <<borrowings, side>>

\* Book.create rejects (the database refuses the write): lines 348-350
AddBookCreateFails(p) ==
  /\ req[p].pc = "a_create"
  /\ req' = [req EXCEPT ![p] = Finish(req[p], "ADD_BOOK_ERROR")]
  /\ UNCHANGED <<books, borrowings, side>>

\* --------------------------------------------------------- borrowBook
\* lines 360-362 and on, with the check of lines 356-358 left out
BorrowStart_NoAuth(u, id) ==
  LET r == [IdleReq EXCEPT !.op = "borrowBook", !.userId = u, !.arg = id]
  IN IF ~IsValidId(id) THEN Finish(r, "INVALID_ID")
     ELSE [r EXCEPT !.pc = "b_findBook"]

\* lines 356-362: the checks before the first await
BorrowStart(u, id) ==
  LET r == [IdleReq EXCEPT !.op = "borrowBook", !.userId = u, !.arg = id]
  IN IF u = Null THEN Finish(r, "UNAUTHENTICATED")
     ELSE IF ~IsValidId(id) THEN Finish(r, "INVALID_ID")
     ELSE [r EXCEPT !.pc = "b_findBook"]

CallBorrowBook(p) ==
  /\ req[p].pc = "idle"
  /\ Len(borrowings) + Cardinality(PendingCreates) < MaxBorrowings
  /\ \E u \in UserIds, id \in BookIds :
       req' = [req EXCEPT ![p] = BorrowStart(u, id)]
  /\ UNCHANGED <<books, borrowings, side>>

\* the guard of line 369 written as < 0
NoCopies_Strict(avail) == avail < 0

\* line 369
NoCopies(avail) == avail <= 0

\* lines 365-371 with the throw of line 370 replaced by waiting for a copy:
\* the invocation asks again until another invocation has returned one
BorrowAfterFindBook_Wait(r) ==
  IF ~BookExists(r.arg) THEN Finish(r, "BOOK_NOT_FOUND")
  ELSE IF NoCopies(books[r.arg].availableCopies) THEN r
  ELSE [r EXCEPT !.pc = "b_findExisting",
                 !.bookAvail = books[r.arg].availableCopies]

\* lines 365-371: Book.findById(bookId) answers
BorrowAfterFindBook(r) ==
  IF ~BookExists(r.arg) THEN Finish(r, "BOOK_NOT_FOUND")
  ELSE IF NoCopies(books[r.arg].availableCopies)
    THEN Finish(r, "NO_COPIES_AVAILABLE")
  ELSE [r EXCEPT !.pc = "b_findExisting",
                 !.bookAvail = books[r.arg].availableCopies]

BorrowFindBook(p) ==
  /\ req[p].pc = "b_findBook"
  /\ req' = [req EXCEPT ![p] = BorrowAfterFindBook(req[p])]
  /\ UNCHANGED <<books, borrowings, side>>

\* lines 374-385 with the throw of lines 380-385 left out
BorrowAfterFindExisting_Skipped(r) == [r EXCEPT !.pc = "b_create"]

\* lines 374-385: Borrowing.findOne({member, book, returned: false}) answers
BorrowAfterFindExisting(r) ==
  IF ActiveBorrowings(r.userId, r.arg) # {}
    THEN Finish(r, "ALREADY_BORROWED")
  ELSE [r EXCEPT !.pc = "b_create"]

BorrowFindExisting(p) ==
  /\ req[p].pc = "b_findExisting"
  /\ req' = [req EXCEPT ![p] = BorrowAfterFindExisting(req[p])]
  /\ UNCHANGED <<books, borrowings, side>>

\* lines 388-393: the document Borrowing.create inserts
NewBorrowing(r) ==
  [member |-> r.userId, book |-> r.arg, returned |-> FALSE,
   returnDate |-> Null]

\* lines 388-396: Borrowing.create resolves, then book.availableCopies -= 1
\* on the local document and book.save() is issued
BorrowCreate(p) ==
  /\ req[p].pc = "b_create"
  /\ borrowings' = Append(borrowings, NewBorrowing(req[p]))
  /\ req' = [req EXCEPT ![p] =
       [req[p] EXCEPT !.pc = "b_save",
                      !.created = Len(borrowings) + 1,
                      !.bookAvail = req[p].bookAvail - 1,
                      !.writes = {"Borrowing"}]]
  /\ UNCHANGED <<books, side>>

\* Borrowing.create rejects: lines 400-402
BorrowCreateFails(p) ==
  /\ req[p].pc = "b_create"
  /\ req' = [req EXCEPT ![p] = Finish(req[p], "BORROW_BOOK_ERROR")]
  /\ UNCHANGED <<books, borrowings, side>>

\* book.save() sending the update as {$inc: {availableCopies: -1}} on top
\* of the local decrement
SaveBook_Twice(id, avail) == [books EXCEPT ![id].availableCopies = avail - 1]

\* book.save() of line 397 writes the modified path of the local document:
\* updateOne({_id}, {$set: {availableCopies: <local value>}})
SaveBook(id, avail) == [books EXCEPT ![id].availableCopies = avail]

\* lines 397-399: book.save() resolves, the resolver returns newBorrowing
BorrowSave(p) ==
  /\ req[p].pc = "b_save"
  /\ books' = SaveBook(req[p].arg, req[p].bookAvail)
  /\ req' = [req EXCEPT ![p] =
       Finish([req[p] EXCEPT !.writes = @ \cup {"Book"}], "OK")]
  /\ UNCHANGED <<borrowings, side>>

\* book.save() rejects after the Borrowing was inserted: lines 400-402
BorrowSaveFails(p) ==
  /\ req[p].pc = "b_save"
  /\ req' = [req EXCEPT ![p] = Finish(req[p], "BORROW_BOOK_ERROR")]
  /\ UNCHANGED <<books, borrowings, side>>

\* --------------------------------------------------------- returnBook
\* lines 408-414: the checks before the first await
ReturnStart(u, id) ==
  LET r == [IdleReq EXCEPT !.op = "returnBook", !.userId = u, !.arg = id]
  IN IF u = Null THEN Finish(r, "UNAUTHENTICATED")
     ELSE IF ~IsValidId(id) THEN Finish(r, "INVALID_ID")
     ELSE [r EXCEPT !.pc = "r_find"]

CallReturnBook(p) ==
  /\ req[p].pc = "idle"
  /\ \E u \in UserIds, id \in BorrowingIds :
       req' = [req EXCEPT ![p] = ReturnStart(u, id)]
  /\ UNCHANGED <<books, borrowings, side>>

\* the ownership check of lines 423-428 left out (as in the first version
\* of the resolver)
NotOwner_Skipped(borrowing, u) == FALSE

\* line 423: borrowing.member.toString() !== context.userId
NotOwner(borrowing, u) == borrowing.member # u

\* the guard of line 431 left out
IsReturned_Skipped(borrowing) == FALSE

\* line 431
IsReturned(borrowing) == borrowing.returned

\* lines 417-433 with the check of line 431 placed before that of line 423
ReturnAfterFind_Swapped(r) ==
  IF ~BorrowingExists(r.arg) THEN Finish(r, "BORROWING_NOT_FOUND")
  ELSE IF IsReturned(borrowings[r.arg]) THEN Finish(r, "ALREADY_RETURNED")
  ELSE IF NotOwner(borrowings[r.arg], r.userId) THEN Finish(r, "UNAUTHORIZED")
  ELSE [r EXCEPT !.pc = "r_saveBorrowing"]

\* lines 417-433: Borrowing.findById(borrowingId) answers
ReturnAfterFind(r) ==
  IF ~BorrowingExists(r.arg) THEN Finish(r, "BORROWING_NOT_FOUND")
  ELSE IF NotOwner(borrowings[r.arg], r.userId) THEN Finish(r, "UNAUTHORIZED")
  ELSE IF IsReturned(borrowings[r.arg]) THEN Finish(r, "ALREADY_RETURNED")
  ELSE [r EXCEPT !.pc = "r_saveBorrowing"]

ReturnFind(p) ==
  /\ req[p].pc = "r_find"
  /\ req' = [req EXCEPT ![p] = ReturnAfterFind(req[p])]
  /\ UNCHANGED <<books, borrowings, side>>

\* borrowing.save() with line 437 (the returnDate assignment) left out
SaveBorrowing_NoDate(id) == [borrowings EXCEPT ![id].returned = TRUE]

\* lines 436-438: borrowing.save() writes the two modified paths
SaveBorrowing(id) ==
  [borrowings EXCEPT ![id].returned = TRUE, ![id].returnDate = "now"]

\* lines 436-441: borrowing.save() resolves, Book.findById is issued
ReturnSaveBorrowing(p) ==
  /\ req[p].pc = "r_saveBorrowing"
  /\ borrowings' = SaveBorrowing(req[p].arg)
  /\ req' = [req EXCEPT ![p] =
       [req[p] EXCEPT !.pc = "r_findBook", !.writes = {"Borrowing"}]]
  /\ UNCHANGED <<books, side>>

\* borrowing.save() rejects: lines 446-448
ReturnSaveBorrowingFails(p) ==
  /\ req[p].pc = "r_saveBorrowing"
  /\ req' = [req EXCEPT ![p] = Finish(req[p], "RETURN_BOOK_ERROR")]
  /\ UNCHANGED <<books, borrowings, side>>

\* lines 441-443: Book.findById(borrowing.book) answers, then
\* book.availableCopies += 1 on the local document, book.save() is issued
ReturnFindBook(p) ==
  /\ req[p].pc = "r_findBook"
  /\ req' = [req EXCEPT ![p] =
       [req[p] EXCEPT
          !.pc = "r_saveBook",
          !.bookAvail = books[borrowings[req[p].arg].book].availableCopies + 1]]
  /\ UNCHANGED <<books, borrowings, side>>

\* lines 443-445: book.save() resolves, the resolver returns borrowing
ReturnSaveBook(p) ==
  /\ req[p].pc = "r_saveBook"
  /\ books' = SaveBook(borrowings[req[p].arg].book, req[p].bookAvail)
  /\ req' = [req EXCEPT ![p] =
       Finish([req[p] EXCEPT !.writes = @ \cup {"Book"}], "OK")]
  /\ UNCHANGED <<borrowings, side>>

\* book.save() rejects after the Borrowing was marked returned
ReturnSaveBookFails(p) ==
  /\ req[p].pc = "r_saveBook"
  /\ req' = [req EXCEPT ![p] = Finish(req[p], "RETURN_BOOK_ERROR")]
  /\ UNCHANGED <<books, borrowings, side>>

\* ------------------------------------------------------------ respond
\* the server sends the resolver's result or formatted error to the client
Respond(p) ==
  /\ req[p].pc = "done"
  /\ req' = [req EXCEPT ![p] = IdleReq]
  /\ UNCHANGED <<books, borrowings, side>>

\* --------------------------------------------------------------- Next
Call(p) == CallAddBook(p) \/ CallBorrowBook(p) \/ CallReturnBook(p)

\* a database operation answers and the resolver runs on to its next await
Step(p) ==
  \/ AddBookFind(p)
  \/ AddBookCreate(p)
  \/ BorrowFindBook(p)
  \/ BorrowFindExisting(p)
  \/ BorrowCreate(p)
  \/ BorrowSave(p)
  \/ ReturnFind(p)
  \/ ReturnSaveBorrowing(p)
  \/ ReturnFindBook(p)
  \/ ReturnSaveBook(p)

\* the database refuses a write
Fault(p) ==
  \/ AddBookCreateFails(p)
  \/ BorrowCreateFails(p)
  \/ BorrowSaveFails(p)
  \/ ReturnSaveBorrowingFails(p)
  \/ ReturnSaveBookFails(p)

\* requests arrive at any time, database writes may fail
Next == \E p \in Procs : Call(p) \/ Step(p) \/ Fault(p) \/ Respond(p)
Spec == Init /\ [][Next]_vars

\* requests arrive at any time, every database write succeeds
RaceNext == \E p \in Procs : Call(p) \/ Step(p) \/ Respond(p)
RaceSpec == Init /\ [][RaceNext]_vars

\* one request at a time: a request arrives only when none is being served
\* and every earlier response has been sent
AllIdle == \A p \in Procs : req[p].pc = "idle"
SeqNext ==
  \E p \in Procs : (AllIdle /\ Call(p)) \/ Step(p) \/ Fault(p) \/ Respond(p)
SeqSpec == Init /\ [][SeqNext]_vars

\* ---------------------------------- borrowBook and returnBook in flight
\* the catalogue holds one book, added earlier with some number of copies
LendingInit ==
  /\ \E n \in 1..MaxCopies :
       books = << NewBook([IdleReq EXCEPT !.isbn = "111", !.copies = n]) >>
  /\ borrowings = << >>
  /\ req = [p \in Procs |-> IdleReq]
  /\ trip = NoTrip
  /\ InitRegistry
  /\ overdue = NoOverdue

\* a database operation of borrowBook or returnBook answers
LendingStep(p) ==
  \/ BorrowFindBook(p)
  \/ BorrowFindExisting(p)
  \/ BorrowCreate(p)
  \/ BorrowSave(p)
  \/ ReturnFind(p)
  \/ ReturnSaveBorrowing(p)
  \/ ReturnFindBook(p)
  \/ ReturnSaveBook(p)

\* the database refuses a write of borrowBook or returnBook
LendingFault(p) ==
  \/ BorrowCreateFails(p)
  \/ BorrowSaveFails(p)
  \/ ReturnSaveBorrowingFails(p)
  \/ ReturnSaveBookFails(p)

\* each of the invocations is called once, at any time, and is followed up
\* to the point where it returns or throws
LendingNext ==
  \E p \in Procs :
    \/ CallBorrowBook(p)
    \/ CallReturnBook(p)
    \/ LendingStep(p)
    \/ LendingFault(p)

\* writes may fail, and the event loop runs every continuation whose
\* database operation has answered: an invocation that can step is not
\* passed over forever
FairSpec ==
  /\ LendingInit
  /\ [][LendingNext]_vars
  /\ \A p \in Procs : WF_vars(LendingStep(p))

\* ------------------------------------------- a client borrows, then returns
\* One request at a time, as in SeqSpec.  Every borrowBook call records in
\* trip the two collections as the call found them.
TripBorrow(p) ==
  /\ AllIdle
  /\ Len(borrowings) < MaxBorrowings
  /\ \E u \in UserIds, id \in BookIds :
       /\ req' = [req EXCEPT ![p] = BorrowStart(u, id)]
       /\ trip' = [phase |-> "borrow", book |-> id, books |-> books,
                   borrowings |-> borrowings]
  /\ UNCHANGED <<books, borrowings, overdue, registry>>

\* the client received newBorrowing from borrowBook and, with the same
\* bearer token, calls returnBook(newBorrowing.id) before any other request
TripReturn(p) ==
  /\ Done(p, "borrowBook")
  /\ req[p].outcome = "OK"
  /\ trip.phase = "borrow"
  /\ req' = [req EXCEPT ![p] = ReturnStart(req[p].userId, req[p].created)]
  /\ trip' = [trip EXCEPT !.phase = "return"]
  /\ UNCHANGED <<books, borrowings, overdue, registry>>

\* the response is sent; the client's sequence is over
TripRespond(p) ==
  /\ req[p].pc = "done"
  /\ req' = [req EXCEPT ![p] = IdleReq]
  /\ trip' = NoTrip
  /\ UNCHANGED <<books, borrowings, overdue, registry>>

TripNext ==
  \E p \in Procs :
    \/ TripBorrow(p)
    \/ TripReturn(p)
    \/ TripRespond(p)
    \/ (AllIdle /\ (CallAddBook(p) \/ CallReturnBook(p)))
    \/ Step(p)
    \/ Fault(p)
TripSpec == Init /\ [][TripNext]_vars

\* ------------------------------------------------ Borrowing.daysOverdue
\* line 503: 1000 * 60 * 60 * 24
MsPerDay == 1000 * 60 * 60 * 24
\* line 504: the loan period in days
LoanDays == 14

\* Math.abs
Abs(x) == IF x < 0 THEN -x ELSE x

\* Math.floor(a / b) in place of Math.ceil
Ceil_Floor(a, b) == a \div b

\* Math.ceil(a / b), b > 0
Ceil(a, b) == -((-a) \div b)

\* lines 498-507: parent is the Borrowing, today is new Date()
DaysOverdue(parent, today) ==
  IF ~parent.returned
    THEN LET diffTime == Abs(today - parent.borrowDate)
             diffDays == Ceil(diffTime, MsPerDay)
         IN IF diffDays > LoanDays THEN diffDays - LoanDays ELSE 0
    ELSE 0

\* borrowDate and the clock reading: whole days, one millisecond after and
\* one millisecond before
Timestamps ==
  {d * MsPerDay + o : d \in 0..MaxDays, o \in {0, 1, MsPerDay - 1}}

\* a client selects daysOverdue on some Borrowing at some clock reading
OverdueInit ==
  /\ InitLedger
  /\ InitRegistry
  /\ overdue \in [borrowDate : Timestamps, now : Timestamps,
                   returned : BOOLEAN, resolved : {FALSE}, days : {0}]

\* the field resolver runs
ResolveDaysOverdue ==
  /\ ~overdue.resolved
  /\ overdue' = [overdue EXCEPT !.resolved = TRUE,
                                !.days = DaysOverdue(overdue, overdue.now)]
  /\ UNCHANGED <<ledger, trip, registry>>

OverdueNext == ResolveDaysOverdue
OverdueSpec == OverdueInit /\ [][OverdueNext]_vars

\* ------------------------------------------------------ registerMember
\* input.name, input.email, input.password
Names     == {"", "Ann"}
Emails    == {"", "ann.example.org", "ann@example.org", "bob@example.org"}
Passwords == {"", "12345", "123456"}

\* email.includes('@')
IncludesAt(email) == email \in {"ann@example.org", "bob@example.org"}

\* line 254: .slice(-6) keeps the last six decimal digits
SliceModulus == 1000000

\* line 254: `MEM${Date.now().toString().slice(-6)}`.  clock counts the
\* milliseconds since an instant whose Date.now() is a multiple of 10^6 with
\* more than six digits, so the six digits kept are those of clock modulo
\* 10^6; the number stands for the string of these six digits after "MEM"
MembershipNumber(now) == now % SliceModulus

\* lines 234-245: the checks before the first await
RegisterStart(name, email, password) ==
  LET r == [IdleReg EXCEPT !.email = email]
      fail(code) == [r EXCEPT !.pc = "done", !.outcome = code]
  IN IF name = "" \/ email = "" \/ password = "" THEN fail("INVALID_INPUT")
     ELSE IF ~IncludesAt(email) THEN fail("INVALID_EMAIL")
     ELSE IF Len(password) < 6 THEN fail("INVALID_PASSWORD")
     ELSE [r EXCEPT !.pc = "m_find"]

CallRegisterMember(p) ==
  /\ reg[p].pc = "idle"
  /\ \E name \in Names, email \in Emails, password \in Passwords :
       reg' = [reg EXCEPT ![p] = RegisterStart(name, email, password)]
  /\ UNCHANGED <<ledger, trip, overdue, members, clock>>

\* lines 248-257: Member.findOne({email}) answers, the membership number is
\* cut from the clock, bcrypt.hash is issued
RegisterFind(p) ==
  /\ reg[p].pc = "m_find"
  /\ reg' = [reg EXCEPT ![p] =
       IF \E i \in DOMAIN members : members[i].email = reg[p].email
         THEN [reg[p] EXCEPT !.pc = "done", !.outcome = "EMAIL_EXISTS"]
         ELSE [reg[p] EXCEPT !.pc = "m_hash",
                             !.number = MembershipNumber(clock),
                             !.at = clock]]
  /\ UNCHANGED <<ledger, trip, overdue, members, clock>>

\* lines 257-260: bcrypt.hash resolves, Member.create is issued
RegisterHash(p) ==
  /\ reg[p].pc = "m_hash"
  /\ reg' = [reg EXCEPT ![p].pc = "m_create"]
  /\ UNCHANGED <<ledger, trip, overdue, members, clock>>

\* lines 260-266: the document Member.create inserts
NewMember(r) == [email |-> r.email, membershipNumber |-> r.number]

\* a Member collection that keeps only email unique
MemberUnique_EmailOnly(doc) ==
  \A i \in DOMAIN members : members[i].email # doc.email

\* the Member collection accepts a document only if no stored member has
\* its email or its membership number (data model: both are unique)
MemberUnique(doc) ==
  \A i \in DOMAIN members :
    /\ members[i].email # doc.email
    /\ members[i].membershipNumber # doc.membershipNumber

\* lines 260-278: Member.create resolves and the resolver returns the token
\* and member, or it rejects with a duplicate-key error, which is no
\* AppError and becomes REGISTRATION_ERROR
RegisterCreate(p) ==
  /\ reg[p].pc = "m_create"
  /\ IF MemberUnique(NewMember(reg[p]))
       THEN /\ members' = Append(members, NewMember(reg[p]))
            /\ reg' = [reg EXCEPT ![p].pc = "done", ![p].outcome = "OK"]
       ELSE /\ reg' = [reg EXCEPT ![p].pc = "done",
                                  ![p].outcome = "REGISTRATION_ERROR"]
            /\ UNCHANGED members
  /\ UNCHANGED <<ledger, trip, overdue, clock>>

\* the server sends the result or formatted error to the client
RegisterRespond(p) ==
  /\ reg[p].pc = "done"
  /\ reg' = [reg EXCEPT ![p] = IdleReg]
  /\ UNCHANGED <<ledger, trip, overdue, members, clock>>

\* time passes: a millisecond, or 10^6 milliseconds
Tick ==
  /\ \E d \in {1, SliceModulus} :
       /\ (clock + d) % SliceModulus <= MaxMs
       /\ (clock + d) \div SliceModulus <= MaxWraps
       /\ clock' = clock + d
  /\ UNCHANGED <<ledger, trip, overdue, members, reg>>

RegNext ==
  \/ Tick
  \/ \E p \in Procs :
       \/ CallRegisterMember(p)
       \/ RegisterFind(p)
       \/ RegisterHash(p)
       \/ RegisterCreate(p)
       \/ RegisterRespond(p)
RegSpec == Init /\ [][RegNext]_vars

\* ------------------------------------------------------------- claims
\* the step in which invocation p of resolver op returns or throws
Finishes(p, op) ==
  req[p].op = op /\ req[p].pc # "done" /\ req'[p].pc = "done"
DbUnchanged == books' = books /\ borrowings' = borrowings

\* C1: in every reachable state every book has
\* 0 <= availableCopies <= totalCopies, totalCopies being the count the
\* book was created with.
C1_CopiesWithinTotal ==
  \A b \in DOMAIN books :
    /\ 0 <= books[b].availableCopies
    /\ books[b].availableCopies <= books[b].createdWith

\* the finished borrowBook requests of members that found book b and were
\* answered according to its availableCopies
Borrowers(b) ==
  {p \in Procs : Done(p, "borrowBook") /\ req[p].arg = b
                 /\ req[p].userId \in Members
                 /\ req[p].outcome \in {"OK", "NO_COPIES_AVAILABLE"}}
\* book b was created with one copy and every Borrowing of it, none of them
\* returned, was created by one of the requests in S: availableCopies was 1
\* when these requests were served and no other request has touched the book
OnlyBorrowers(b, S) ==
  /\ books[b].createdWith = 1
  /\ Quiescent
  /\ \A i \in DOMAIN borrowings :
       borrowings[i].book = b =>
         /\ ~borrowings[i].returned
         /\ \E p \in S : req[p].outcome = "OK" /\ req[p].created = i

\* C2: when two or more distinct members borrow the same book whose
\* availableCopies is 1 (a one-copy book that no other request has borrowed
\* or returned), exactly one request succeeds and the others fail with
\* NO_COPIES_AVAILABLE, exactly one ACTIVE Borrowing is created and
\* availableCopies ends at 0.
C2_ExactlyOneBorrowSucceeds ==
  \A b \in DOMAIN books :
    LET S == Borrowers(b)
    IN (/\ Cardinality(S) >= 2
        /\ \A p, q \in S : p # q => req[p].userId # req[q].userId
        /\ OnlyBorrowers(b, S))
       => /\ Cardinality({p \in S : req[p].outcome = "OK"}) = 1
          /\ Cardinality({p \in S : req[p].outcome = "NO_COPIES_AVAILABLE"})
               = Cardinality(S) - 1
          /\ Cardinality(ActiveOfBook(b)) = 1
          /\ books[b].availableCopies = 0

\* C3: in every reachable state there is at most one Borrowing with
\* returned = false for any (member, book) pair.
C3_OneActivePerMemberBook ==
  \A m \in Members, b \in DOMAIN books :
    Cardinality(ActiveBorrowings(m, b)) <= 1

\* C4: of two returnBook requests of the owning member that both found the
\* same Borrowing, at most one succeeds (the other fails ALREADY_RETURNED)
\* and at most one writes the book's availableCopies.
C4_ExactlyOneReturnSucceeds ==
  \A p, q \in Procs :
    (/\ p # q
     /\ Done(p, "returnBook") /\ Done(q, "returnBook")
     /\ req[p].arg = req[q].arg
     /\ BorrowingExists(req[p].arg)
     /\ req[p].userId = borrowings[req[p].arg].member
     /\ req[q].userId = borrowings[req[p].arg].member
     /\ req[p].outcome = "OK")
    => /\ req[q].outcome \in {"ALREADY_RETURNED", "BORROWING_NOT_FOUND"}
       /\ "Book" \notin req[q].writes

\* C5: whenever no request is in flight, every book has
\* availableCopies + (its Borrowings with returned = false) = totalCopies.
C5_QuiescentCopiesBalance ==
  Quiescent =>
    \A b \in DOMAIN books :
      books[b].availableCopies + Cardinality(ActiveOfBook(b))
        = books[b].createdWith

\* C6: a borrowBook or returnBook that ends with an error has written
\* nothing: no Borrowing created or marked returned, no availableCopies
\* changed.
C6_ErrorLeavesNoWrite ==
  \A p \in Procs :
    ((Done(p, "borrowBook") \/ Done(p, "returnBook"))
       /\ req[p].outcome # "OK")
    => req[p].writes = {}

\* C7: when returnBook's lookup finds a Borrowing whose member is not the
\* caller, the request fails UNAUTHORIZED, whatever the returned flag, and
\* neither the Borrowing nor any availableCopies changes.
C7_NonOwnerUnauthorized ==
  [][\A p \in Procs :
       (/\ req[p].op = "returnBook" /\ req[p].pc = "r_find"
        /\ req'[p].pc # "r_find"
        /\ BorrowingExists(req[p].arg)
        /\ borrowings[req[p].arg].member # req[p].userId)
       => /\ req'[p].pc = "done"
          /\ req'[p].outcome = "UNAUTHORIZED"
          /\ req'[p].writes = {}
          /\ DbUnchanged]_vars

\* C7 witness: a non-owner was refused on a returned Borrowing and another
\* on an active one
C7_Witness ==
  \E p, q \in Procs :
    /\ Done(p, "returnBook") /\ req[p].outcome = "UNAUTHORIZED"
    /\ Done(q, "returnBook") /\ req[q].outcome = "UNAUTHORIZED"
    /\ BorrowingExists(req[p].arg) /\ borrowings[req[p].arg].returned
    /\ BorrowingExists(req[q].arg) /\ ~borrowings[req[q].arg].returned
    /\ books[borrowings[req[q].arg].book].availableCopies
         < books[borrowings[req[q].arg].book].createdWith

\* C8: when the owner's returnBook finds its Borrowing already returned, the
\* request fails ALREADY_RETURNED and neither availableCopies nor the
\* Borrowing (returnDate) changes, however often it is repeated.
C8_ReturnedStaysReturned ==
  [][\A p \in Procs :
       (/\ req[p].op = "returnBook" /\ req[p].pc = "r_find"
        /\ req'[p].pc # "r_find"
        /\ BorrowingExists(req[p].arg)
        /\ borrowings[req[p].arg].member = req[p].userId
        /\ borrowings[req[p].arg].returned)
       => /\ req'[p].pc = "done"
          /\ req'[p].outcome = "ALREADY_RETURNED"
          /\ req'[p].writes = {}
          /\ DbUnchanged]_vars

\* C8 witness: two repeated returns of one returned Borrowing were refused
C8_Witness ==
  \E p, q \in Procs :
    /\ p # q
    /\ Done(p, "returnBook") /\ req[p].outcome = "ALREADY_RETURNED"
    /\ Done(q, "returnBook") /\ req[q].outcome = "ALREADY_RETURNED"
    /\ req[p].arg = req[q].arg
    /\ borrowings[req[p].arg].returned
    /\ borrowings[req[p].arg].returnDate # Null

\* C9: when borrowBook finds the book with availableCopies = 0, the request
\* fails NO_COPIES_AVAILABLE, creates no Borrowing and leaves
\* availableCopies at 0.
C9_NoCopiesNoBorrowing ==
  [][\A p \in Procs :
       (/\ req[p].op = "borrowBook" /\ req[p].pc = "b_findBook"
        /\ req'[p].pc # "b_findBook"
        /\ BookExists(req[p].arg)
        /\ books[req[p].arg].availableCopies = 0)
       => /\ req'[p].pc = "done"
          /\ req'[p].outcome = "NO_COPIES_AVAILABLE"
          /\ req'[p].created = 0
          /\ req'[p].writes = {}
          /\ DbUnchanged
          /\ books'[req[p].arg].availableCopies = 0]_vars

\* C9 witness: a member was refused on a book with no copy left
C9_Witness ==
  \E p \in Procs :
    /\ Done(p, "borrowBook") /\ req[p].outcome = "NO_COPIES_AVAILABLE"
    /\ req[p].userId \in Members
    /\ books[req[p].arg].availableCopies = 0
    /\ Len(borrowings) = 1

\* what a successful borrowBook of member u on book b leaves behind when no
\* other request is served meanwhile
BorrowSucceeded(p) ==
  LET u == req[p].userId
      b == req[p].arg
      n == req'[p].created
  IN /\ books' = [books EXCEPT ![b].availableCopies = @ - 1]
     /\ borrowings' = borrowings
     /\ n = Len(borrowings)
     /\ borrowings[n] = [member |-> u, book |-> b, returned |-> FALSE,
                         returnDate |-> Null]
     /\ {i \in DOMAIN borrowings' :
           /\ borrowings'[i].member = u /\ borrowings'[i].book = b
           /\ ~borrowings'[i].returned} = {n}

\* member req[p].userId holds an ACTIVE Borrowing of book req[p].arg that
\* this request did not create
HoldsAlready(p) ==
  req[p].created = 0 /\ ActiveBorrowings(req[p].userId, req[p].arg) # {}

C11_RoundTrip ==
  \A p \in Procs :
    (trip.phase = "return" /\ Done(p, "returnBook") /\ req[p].outcome = "OK")
    => /\ books = trip.books
       /\ Len(borrowings) = Len(trip.borrowings) + 1
       /\ SubSeq(borrowings, 1, Len(trip.borrowings)) = trip.borrowings
       /\ req[p].arg = Len(borrowings)
       /\ borrowings[Len(borrowings)].member = req[p].userId
       /\ borrowings[Len(borrowings)].book = trip.book
       /\ borrowings[Len(borrowings)].returned
       /\ borrowings[Len(borrowings)].returnDate # Null

\* a round trip has completed on a book of which another member holds a copy
C11_Witness ==
  \E p \in Procs :
    /\ trip.phase = "return"
    /\ Done(p, "returnBook")
    /\ req[p].outcome = "OK"
    /\ Len(trip.borrowings) = 1
    /\ ~trip.borrowings[1].returned
    /\ books[trip.book].availableCopies = 1

\* C12: across every behaviour a Borrowing document, once created, is never
\* deleted and keeps its member and book; its returned flag never goes from
\* true to false; the flag changes only in the borrowing.save() of a
\* returnBook, and a returnBook that has written the Borrowing ends
\* successfully; returnDate is set if and only if returned = true.
C12_BorrowingLifecycle ==
  [][/\ Len(borrowings') >= Len(borrowings)
     /\ \A i \in DOMAIN borrowings :
          /\ borrowings'[i].member = borrowings[i].member
          /\ borrowings'[i].book = borrowings[i].book
          /\ borrowings[i].returned => borrowings'[i].returned
          /\ borrowings'[i].returned # borrowings[i].returned
               => \E p \in Procs :
                    /\ req[p].op = "returnBook"
                    /\ req[p].arg = i
                    /\ req[p].pc = "r_saveBorrowing"
                    /\ req'[p].pc = "r_findBook"
     /\ \A i \in DOMAIN borrowings' :
          borrowings'[i].returned <=> borrowings'[i].returnDate # Null
     /\ \A p \in Procs :
          (Finishes(p, "returnBook") /\ "Borrowing" \in req[p].writes)
            => req'[p].outcome = "OK"]_vars

\* C13: a borrowBook or returnBook called with context.userId = null throws
\* UNAUTHENTICATED in the call itself, before any database lookup is
\* issued, and leaves every Book and Borrowing unchanged.
C13_UnauthenticatedFirst ==
  [][\A p \in Procs :
       (/\ req'[p].op \in {"borrowBook", "returnBook"}
        /\ req'[p].userId = Null)
       => /\ req'[p].pc = "done"
          /\ req'[p].outcome = "UNAUTHENTICATED"
          /\ req'[p].writes = {}
          /\ (req[p].pc = "idle" => DbUnchanged)]_vars

\* both resolvers have refused a call without identity that names a book
\* with a free copy and a Borrowing that is not returned
C13_Witness ==
  \E p, q \in Procs :
    /\ Done(p, "borrowBook")
    /\ req[p].outcome = "UNAUTHENTICATED"
    /\ BookExists(req[p].arg)
    /\ books[req[p].arg].availableCopies > 0
    /\ Done(q, "returnBook")
    /\ req[q].outcome = "UNAUTHENTICATED"
    /\ BorrowingExists(req[q].arg)
    /\ ~borrowings[req[q].arg].returned

\* C14: a successful addBook with copies = n >= 1 creates one book with
\* availableCopies = n = totalCopies; an addBook by a member with an isbn
\* that already exists fails with ISBN_EXISTS (DuplicateIsbn), and one with
\* copies < 1 fails with an InvalidInput error (INVALID_INPUT for 0,
\* INVALID_COPIES for a negative count); both create no book and change no
\* existing book.
C14_AddBook ==
  [][\A p \in Procs :
       (/\ req'[p].op = "addBook"
        /\ req[p].pc # "done"
        /\ req'[p].pc = "done"
        /\ req'[p].userId # Null)
       => /\ req'[p].copies < 1
               => /\ req'[p].outcome \in {"INVALID_INPUT", "INVALID_COPIES"}
                  /\ DbUnchanged
          /\ (req'[p].copies >= 1 /\ BooksWithIsbn(req'[p].isbn) # {})
               => /\ req'[p].outcome = "ISBN_EXISTS"
                  /\ DbUnchanged
          /\ req'[p].outcome = "OK"
               => /\ req'[p].copies >= 1
                  /\ Len(books') = Len(books) + 1
                  /\ SubSeq(books', 1, Len(books)) = books
                  /\ borrowings' = borrowings
                  /\ books'[Len(books')].isbn = req'[p].isbn
                  /\ books'[Len(books')].availableCopies = req'[p].copies
                  /\ books'[Len(books')].totalCopies = {req'[p].copies}]_vars

\* C15: in every reachable state no two books share an isbn, and of two
\* addBook invocations by members with the same isbn and copies >= 1, run
\* one after the other or at once, when one has succeeded the other has
\* failed with ISBN_EXISTS (DuplicateIsbn).
C15_UniqueIsbn ==
  /\ \A a, b \in DOMAIN books : a # b => books[a].isbn # books[b].isbn
  /\ \A p, q \in Procs :
       (/\ p # q
        /\ Done(p, "addBook")
        /\ Done(q, "addBook")
        /\ req[p].isbn = req[q].isbn
        /\ req[p].outcome = "OK"
        /\ req[q].userId # Null
        /\ req[q].copies >= 1)
       => req[q].outcome = "ISBN_EXISTS"

\* the larger of two integers
Max(a, b) == IF a >= b THEN a ELSE b

\* ceil(x in days): the least whole number of days that is not less than x
\* milliseconds
CeilDays(x) ==
  CHOOSE c \in (-(MaxDays + 1))..(MaxDays + 1) :
    (c - 1) * MsPerDay < x /\ x <= c * MsPerDay

\* C16 as stated: daysOverdue equals max(0, ceil((now - borrowDate) in
\* days) - 14) for every ACTIVE borrowing and every pair (now, borrowDate)
\* of timestamps, and 0 for every RETURNED borrowing.
C16_AsStated ==
  overdue.resolved
  => overdue.days =
       IF overdue.returned THEN 0
       ELSE Max(0, CeilDays(overdue.now - overdue.borrowDate) - 14)

\* C16: daysOverdue equals max(0, ceil(|now - borrowDate| in days) - 14)
\* for every ACTIVE borrowing, which is the stated value whenever
\* now >= borrowDate, and 0 for every RETURNED borrowing; an ACTIVE
\* borrowing made exactly 20 days ago yields 6.
C16_DaysOverdue ==
  overdue.resolved
  => /\ overdue.returned => overdue.days = 0
     /\ (~overdue.returned /\ overdue.now >= overdue.borrowDate)
          => overdue.days =
               Max(0, CeilDays(overdue.now - overdue.borrowDate) - 14)
     /\ (~overdue.returned /\ overdue.now < overdue.borrowDate)
          => overdue.days =
               Max(0, CeilDays(overdue.borrowDate - overdue.now) - 14)
     /\ (~overdue.returned
         /\ overdue.now - overdue.borrowDate = 20 * MsPerDay)
          => overdue.days = 6

\* daysOverdue was evaluated on an ACTIVE borrowing made exactly 20 days ago
C16_Witness ==
  /\ overdue.resolved
  /\ ~overdue.returned
  /\ overdue.now - overdue.borrowDate = 20 * MsPerDay
  /\ overdue.days = 6

\* C17: under fair scheduling of resolver steps every started borrowBook or
\* returnBook invocation eventually returns or throws, whatever the other
\* invocation does, and an invocation has an outcome (OK or one error code)
\* exactly when it has returned or thrown.
C17_EveryRequestCompletes ==
  /\ [](\A p \in Procs : req[p].pc = "done" <=> req[p].outcome # "none")
  /\ \A p \in Procs :
       (InFlight(p) /\ req[p].op \in {"borrowBook", "returnBook"})
         ~> (req[p].pc = "done" /\ req[p].outcome # "none")

\* a borrowBook has returned while a returnBook that had already written
\* the Borrowing was still in flight
C17_Witness ==
  \E p, q \in Procs :
    /\ Done(p, "borrowBook")
    /\ req[p].outcome = "OK"
    /\ req[q].op = "returnBook"
    /\ req[q].pc = "r_saveBook"

BorrowFirstFailing(u, id) ==
  IF u = Null THEN "UNAUTHENTICATED"
  ELSE IF id \notin DOMAIN books THEN "BOOK_NOT_FOUND"
  ELSE IF books[id].availableCopies <= 0 THEN "NO_COPIES_AVAILABLE"
  ELSE IF \E i \in DOMAIN borrowings :
            /\ borrowings[i].member = u
            /\ borrowings[i].book = id
            /\ ~borrowings[i].returned
    THEN "ALREADY_BORROWED"
  ELSE "none"

\* C19: with one request at a time, a borrowBook called with a well-formed
\* book id reports the first guard that fails in the order Unauthenticated,
\* BookNotFound, NoCopiesAvailable, AlreadyBorrowed, and reports one of
\* these four only if it is the first that fails; so a member who holds an
\* ACTIVE Borrowing of a book with availableCopies = 0 gets
\* NO_COPIES_AVAILABLE, not ALREADY_BORROWED.
C19_BorrowGuardOrder ==
  [][\A p \in Procs :
       (/\ req'[p].op = "borrowBook"
        /\ req[p].pc # "done"
        /\ req'[p].pc = "done"
        /\ req'[p].arg # 0
        /\ req[p].created = 0)
       => LET first == BorrowFirstFailing(req'[p].userId, req'[p].arg)
          IN /\ first # "none" => req'[p].outcome = first
             /\ req'[p].outcome \in {"UNAUTHENTICATED", "BOOK_NOT_FOUND",
                                      "NO_COPIES_AVAILABLE", "ALREADY_BORROWED"}
                  => req'[p].outcome = first]_vars

\* the member holding the only copy of a book asked for the book again and
\* was told that no copy is available
C19_Witness ==
  \E p \in Procs :
    /\ Done(p, "borrowBook")
    /\ req[p].outcome = "NO_COPIES_AVAILABLE"
    /\ ActiveBorrowings(req[p].userId, req[p].arg) # {}
    /\ books[req[p].arg].availableCopies = 0
    /\ books[req[p].arg].createdWith = 1
    /\ Len(borrowings) = 1

\* the first guard of returnBook, in the order Unauthenticated,
\* BorrowingNotFound, Unauthorized, AlreadyReturned, that fails for member
\* u and borrowing id in the current state; "none" when all four pass
ReturnFirstFailing(u, id) ==
  IF u = Null THEN "UNAUTHENTICATED"
  ELSE IF id \notin DOMAIN borrowings THEN "BORROWING_NOT_FOUND"
  ELSE IF borrowings[id].member # u THEN "UNAUTHORIZED"
  ELSE IF borrowings[id].returned THEN "ALREADY_RETURNED"
  ELSE "none"

\* C20: a returnBook called with a well-formed borrowing id reports the
\* first guard that fails in the order Unauthenticated, BorrowingNotFound,
\* Unauthorized, AlreadyReturned, as of the state in which
\* Borrowing.findById answers, and reports one of these four only if it is
\* the first that fails; so a non-owner returning an already RETURNED
\* Borrowing gets UNAUTHORIZED, not ALREADY_RETURNED.
C20_ReturnGuardOrder ==
  [][\A p \in Procs :
       (/\ req'[p].op = "returnBook"
        /\ req[p].pc # "done"
        /\ req'[p].pc = "done"
        /\ req'[p].arg # 0
        /\ req[p].writes = {})
       => LET first == ReturnFirstFailing(req'[p].userId, req'[p].arg)
          IN /\ first # "none" => req'[p].outcome = first
             /\ req'[p].outcome \in {"UNAUTHENTICATED", "BORROWING_NOT_FOUND",
                                      "UNAUTHORIZED", "ALREADY_RETURNED"}
                  => req'[p].outcome = first]_vars

\* a member was refused the return of another member's Borrowing that was
\* already returned
C20_Witness ==
  \E p \in Procs :
    /\ Done(p, "returnBook")
    /\ req[p].outcome = "UNAUTHORIZED"
    /\ BorrowingExists(req[p].arg)
    /\ borrowings[req[p].arg].returned
    /\ borrowings[req[p].arg].returnDate # Null
    /\ borrowings[req[p].arg].member # req[p].userId

\* C21: a book's availableCopies changes only in the step in which a
\* borrowBook on that book succeeds, and then by -1, or in which a
\* returnBook of a Borrowing of that book succeeds, and then by +1; no
\* book is removed; a Borrowing changes only when a returnBook writes that
\* Borrowing; and a step of addBook leaves every existing book and every
\* Borrowing unchanged.
C21_FrameOfAvailableCopies ==
  [][/\ Len(books') >= Len(books)
     /\ \A b \in DOMAIN books :
          books'[b].availableCopies # books[b].availableCopies
          => \E p \in Procs :
               /\ req[p].pc # "done"
               /\ req'[p].pc = "done"
               /\ req'[p].outcome = "OK"
               /\ \/ /\ req[p].op = "borrowBook"
                     /\ req[p].arg = b
                     /\ books'[b].availableCopies
                          = books[b].availableCopies - 1
                  \/ /\ req[p].op = "returnBook"
                     /\ borrowings[req[p].arg].book = b
                     /\ books'[b].availableCopies
                          = books[b].availableCopies + 1
     /\ Len(borrowings') >= Len(borrowings)
     /\ \A i \in DOMAIN borrowings :
          borrowings'[i] # borrowings[i]
          => \E p \in Procs :
               /\ req[p].op = "returnBook"
               /\ req[p].arg = i
               /\ req[p].pc = "r_saveBorrowing"
               /\ req'[p].pc = "r_findBook"
     /\ \A p \in Procs :
          (req'[p].op = "addBook" /\ req'[p] # req[p])
          => /\ SubSeq(books', 1, Len(books)) = books
             /\ borrowings' = borrowings]_vars
====
